---- MODULE Spec2Model ----
(***************************************************************************)
(* Model of reviews-collector-android (lib/index.js, kept here as          *)
(* src/unnamed/part_002): the Collector's constructor, collect() and the   *)
(* closures collect() creates (processNextApp, queuePage, parse, requeue,  *)
(* continueProcessingApp, stopProcessingApp, emit), together with the      *)
(* helpers responseToHtml and htmlToReviews.                               *)
(*                                                                         *)
(* JavaScript runs every callback to completion, so each action below is   *)
(* one callback: a call of collect(), the expiry of a queuePage() timer,      *)
(* the Crawler's processRequest callback, and a listener calling one of    *)
(* the callbacks a 'page complete' payload carried.                        *)
(***************************************************************************)
EXTENDS Integers, Sequences, FiniteSets, TLC

(* ------------------------------ bounds --------------------------------- *)
\* longest list of app ids given to the constructor
MaxApps == 2
\* options.maxPages ranges over 0..MaxPagesOpt
MaxPagesOpt == 2
\* options.maxRetries ranges over 0..MaxRetriesOpt
MaxRetriesOpt == 2
\* most review fragments in one page of HTML
MaxReviews == 2
\* number of collect() calls on one Collector
MaxRuns == 2

(* ------------------------- program constants --------------------------- *)
firstPage == 0
JsonContentType == "application/json; charset=utf-8"

\* the application ids the inputs are drawn from
AppIdSet == {"a", "b"}

\* the highest page number a crawl is followed to: it caps the crawls that
\* maxPages = 0 or checkBeforeContinue leave unlimited
MaxPageNum == MaxPagesOpt

VARIABLES
    maxPages,            \* this.options.maxPages
    maxRetries,          \* this.options.maxRetries
    checkBeforeContinue, \* this.options.checkBeforeContinue
    apps,                \* _.keys(this.apps): the app ids, in insertion order
    retries,             \* this.apps[appId].retries
    run,                 \* number of collect() calls so far
    appIds,              \* collect(): const appIds (the work queue)
    currentApp,          \* collect(): let currentApp
    currentPage,         \* collect(): let currentPage
    nextStepDecided,     \* collect(): let nextStepDecided
    timers,              \* setTimeout callbacks of queuePage() not yet run
    queue,               \* requests handed to the Crawler, not yet called back
    emitted,             \* the events the last callback emitted, in order
    lastPayload,         \* the latest 'page complete' payload a listener holds
    olderContinue,       \* an earlier payload carried continueProcessingApp
    handler,             \* the callback that ran last
    lastOutcome,         \* what the last processRequest callback found
    doneWithApps,        \* listener: 'done with apps' events of this run
    pageCompletes,       \* listener: 'page complete' events of the current app
    doneCollecting,      \* listener: 'done collecting' events of this run, by app
    consecFails,         \* listener: failures of the current app since its
                         \* start or its last extracted page
    applied              \* the helper function applied last, with its
                         \* arguments and its result

opts == <<maxPages, maxRetries, checkBeforeContinue, apps>>
vars == <<maxPages, maxRetries, checkBeforeContinue, apps, retries, run, appIds,
          currentApp, currentPage, nextStepDecided, timers, queue, emitted,
          lastPayload, olderContinue, handler, lastOutcome, doneWithApps,
          pageCompletes, consecFails, doneCollecting,
          applied>>

(* ------------------------------ inputs --------------------------------- *)
RECURSIVE SeqsUpTo(_, _)
SeqsUpTo(S, n) ==
    IF n = 0 THEN {<<>>}
    ELSE LET shorter == SeqsUpTo(S, n - 1)
         IN  shorter \cup {Append(s, x) : s \in {t \in shorter : Len(t) = n - 1}, x \in S}

\* lists of app ids the constructor is given (repetitions included)
AppLists == SeqsUpTo(AppIdSet, MaxApps)

\* app ids that are canonical array indices ('2', '10'), with their values
arrayIndex == ("2" :> 2) @@ ("10" :> 10)
\* lists of app ids of both kinds
AllAppIds == AppIdSet \cup DOMAIN arrayIndex
AllAppLists == SeqsUpTo(AllAppIds, MaxApps)

\* the style attribute of a fragment's .current-rating node: missing,
\* a text without 'width: ', or the text 'width: <w>%' with w in decimal
Widths == {0, 1, 9, 10, 20, 50, 99, 100}
StyleAttrs ==
    {[kind |-> "undefined"], [kind |-> "nowidth"]} \cup [kind : {"width"}, w : Widths]

\* the data-reviewid attribute of a fragment's .review-header node
ReviewIds == {"gp:1", "gp:2", "undefined"}
\* the text of a fragment's .review-date node: a date new Date() parses, no
\* text at all, a text new Date() does not parse
DateStrs == {"date", "empty", "nodate"}

\* a review fragment (.single-review) whose fields all extract, and one whose
\* .current-rating node has no style attribute
wellFormed == [id |-> "gp:1", dateStr |-> "date", style |-> [kind |-> "width", w |-> 100]]
Fragments == {wellFormed, [wellFormed EXCEPT !.style = [kind |-> "undefined"]]}
\* the pages of HTML the transport delivers: the i-th fragment of a page
\* carries the review id gp:i
ReviewIdOf(i) == "gp:" \o ToString(i)
Htmls ==
    {[i \in 1..Len(h) |-> [h[i] EXCEPT !.id = ReviewIdOf(i)]] :
        h \in SeqsUpTo(Fragments, MaxReviews)}

\* the fragments given to htmlToReviews alone: every style attribute, and
\* every id and date
AllFragments ==
    [id : {wellFormed.id}, dateStr : {wellFormed.dateStr}, style : StyleAttrs]
    \cup [id : ReviewIds, dateStr : DateStrs, style : {wellFormed.style}]
AllHtmls == SeqsUpTo(AllFragments, MaxReviews)

\* the JSON bodies a response can carry, by the shape responseToHtml tells apart
Bodies ==
    [kind : {"missing",     \* response.body is undefined
             "emptystring", \* response.body is ""
             "unparsable",  \* a text JSON.parse throws on
             "notarray",    \* parses, but not to an array
             "emptyarray",  \* []
             "firstnot4",   \* body[0] is not an array of length 4
             "fournull",    \* body[0] has length 4 and body[0][2] is null
             "fourother"},  \* body[0][2] is a number, object, boolean...
     html : {<<>>}]
    \cup [kind : {"fourstring"}, html : Htmls]

\* the responses the transport delivers: every body as JSON, and one body
\* under another content type
Responses ==
    [contentType : {JsonContentType}, body : Bodies]
    \cup [contentType : {"text/html"}, body : [kind : {"fourstring"}, html : {<<>>}]]

\* the content-type headers of the responses given to responseToHtml alone
ContentTypes == {JsonContentType, "application/json", "text/html; charset=utf-8", "undefined"}
AllResponses == [contentType : ContentTypes, body : Bodies]

\* no helper function was applied yet
NoCall == [fn |-> "none"]

(* --------------------------- pure helpers ------------------------------ *)
\* the keys of this.apps in the order the constructor's loop inserted them:
\* first occurrences, in order
RECURSIVE insertionOrder(_)
insertionOrder(list) ==
    IF list = <<>> THEN <<>>
    ELSE LET front == insertionOrder(SubSeq(list, 1, Len(list) - 1))
             last  == list[Len(list)]
         IN  IF \E i \in 1..Len(front) : front[i] = last
             THEN front ELSE Append(front, last)

\* _.keys(this.apps): an object lists the keys that are array indices first,
\* in ascending numeric order, and the other keys after them in the order of
\* insertion
constructorKeys(list) ==
    LET inserted == insertionOrder(list)
        indices  == SelectSeq(inserted, LAMBDA k : k \in DOMAIN arrayIndex)
        names    == SelectSeq(inserted, LAMBDA k : k \notin DOMAIN arrayIndex)
    IN  SortSeq(indices, LAMBDA j, k : arrayIndex[j] < arrayIndex[k]) \o names

\* decodeUTF8(str): escape(undefined) is the text "undefined", which no
\* JSON.parse accepts; any other body is handed on (the catch returns str)
decodeUTF8(body) ==
    IF body.kind = "missing" THEN [kind |-> "unparsable", html |-> <<>>] ELSE body

\* decodeUnicode(str): "" is falsy, so nothing is returned for it
decodeUnicode(str) ==
    IF str.kind = "emptystring" THEN [kind |-> "undefined", html |-> <<>>] ELSE str

\* removeLeadingChars(str) throws: str.indexOf of undefined
removeLeadingCharsThrows(str) == str.kind = "undefined"

\* JSON.parse(removeLeadingChars(decoded)) does not throw
parsesAsJson(body) ==
    LET decoded == decodeUnicode(decodeUTF8(body))
    IN  ~removeLeadingCharsThrows(decoded) /\ decoded.kind # "unparsable"
\* _.isArray(body) && body.length > 0
isNonEmptyArray(body) == body.kind \in {"firstnot4", "fournull", "fourother", "fourstring"}
\* _.isArray(arr) && arr.length === 4, for arr = body[0]
firstIsArrayOf4(body) == body.kind \in {"fournull", "fourother", "fourstring"}
\* arr[2], tagged with its JavaScript type
arr2(body) ==
    CASE body.kind = "fourstring" -> [type |-> "string", html |-> body.html]
      [] body.kind = "fournull" -> [type |-> "null"]
      [] OTHER -> [type |-> "other"]

\* responseToHtml without the content-type test
responseToHtml_anyContentType(response) ==
    IF ~parsesAsJson(response.body) THEN [type |-> "undefined"]
    ELSE IF isNonEmptyArray(response.body)
         THEN IF firstIsArrayOf4(response.body)
              THEN arr2(response.body)
              ELSE [type |-> "null"]
         ELSE [type |-> "undefined"]

\* responseToHtml without the try/catch: a body that does not parse throws
responseToHtml_noCatch(response) ==
    IF response.contentType = JsonContentType
    THEN IF ~parsesAsJson(response.body) THEN [type |-> "throws"]
         ELSE IF isNonEmptyArray(response.body)
              THEN IF firstIsArrayOf4(response.body)
                   THEN arr2(response.body)
                   ELSE [type |-> "null"]
              ELSE [type |-> "undefined"]
    ELSE [type |-> "undefined"]

\* responseToHtml: the value returned, tagged with its JavaScript type
responseToHtml(response) ==
    IF response.contentType = JsonContentType
    THEN IF ~parsesAsJson(response.body) THEN [type |-> "undefined"]
         ELSE IF isNonEmptyArray(response.body)
              THEN IF firstIsArrayOf4(response.body)
                   THEN arr2(response.body)
                   ELSE [type |-> "null"]
              ELSE [type |-> "undefined"]
    ELSE [type |-> "undefined"]

(* ------------------- the closures of collect() ------------------------- *)
\* The mutable state the closures share, as one record: each closure below
\* maps the state before its call to the state after it.
St ==
    [retries |-> retries, appIds |-> appIds, currentApp |-> currentApp,
     currentPage |-> currentPage, nextStepDecided |-> nextStepDecided,
     timers |-> timers, queue |-> queue, emitted |-> emitted,
     lastPayload |-> lastPayload, olderContinue |-> olderContinue,
     lastOutcome |-> lastOutcome, doneWithApps |-> doneWithApps,
     pageCompletes |-> pageCompletes, consecFails |-> consecFails,
     doneCollecting |-> doneCollecting]

Apply(st) ==
    /\ retries' = st.retries
    /\ appIds' = st.appIds
    /\ currentApp' = st.currentApp
    /\ currentPage' = st.currentPage
    /\ nextStepDecided' = st.nextStepDecided
    /\ timers' = st.timers
    /\ queue' = st.queue
    /\ emitted' = st.emitted
    /\ lastPayload' = st.lastPayload
    /\ olderContinue' = st.olderContinue
    /\ lastOutcome' = st.lastOutcome
    /\ doneWithApps' = st.doneWithApps
    /\ pageCompletes' = st.pageCompletes
    /\ consecFails' = st.consecFails
    /\ doneCollecting' = st.doneCollecting

NoPayload == [event |-> "none"]
HasContinue(p) == "continue" \in DOMAIN p
HasStop(p) == "stop" \in DOMAIN p

\* a listener registered with on(): it counts the events it is called with
\* and keeps the latest 'page complete' payload (and with it the callbacks)
listener(st, ev) ==
    CASE ev.event = "done with apps" -> [st EXCEPT !.doneWithApps = @ + 1]
      [] ev.event = "done collecting" ->
             [st EXCEPT !.doneCollecting[ev.appId] = @ + 1]
      [] ev.event = "page complete" ->
             [st EXCEPT !.pageCompletes = @ + 1,
                        !.lastPayload = ev,
                        !.olderContinue =
                            @ \/ (HasContinue(st.lastPayload)
                                  /\ st.lastPayload.continue = "continueProcessingApp")]
      [] OTHER -> st

\* emit(event, obj): the OS tag is added and the listeners run synchronously
emit(st, ev) ==
    LET toEmit == [os |-> "Android"] @@ ev
    IN  listener([st EXCEPT !.emitted = Append(@, toEmit)], toEmit)

\* queuePage() handing the request to the Crawler at once
queuePage_noDelay(st) ==
    [st EXCEPT !.queue = Append(@, [appId |-> st.currentApp,
                                    pageNum |-> st.currentPage])]

\* queuePage(): a timer is set; the request is built when it expires
queuePage(st) == [st EXCEPT !.timers = @ + 1]

\* processNextApp() putting the application it leaves back in the work queue
processNextApp_again(st) ==
    IF Len(st.appIds) > 0
    THEN queuePage([st EXCEPT !.currentApp = Head(st.appIds),
                              !.appIds = IF st.currentApp = "undefined"
                                         THEN Tail(st.appIds)
                                         ELSE <<st.currentApp>>,
                              !.currentPage = firstPage,
                              !.pageCompletes = 0,
                              !.consecFails = 0])
    ELSE emit(st, [event |-> "done with apps"])

\* processNextApp()
processNextApp(st) ==
    IF Len(st.appIds) > 0
    THEN queuePage([st EXCEPT !.currentApp = Head(st.appIds),
                              !.appIds = Tail(st.appIds),
                              !.currentPage = firstPage,
                              !.pageCompletes = 0,
                              !.consecFails = 0])
    ELSE emit(st, [event |-> "done with apps"])

\* requeue() without the move to the next application
requeue_staysOnApp(st) ==
    LET s1 == [st EXCEPT !.retries[st.currentApp] = @ + 1,
                         !.consecFails = @ + 1]
    IN  IF s1.retries[s1.currentApp] < maxRetries
        THEN queuePage(s1)
        ELSE emit(s1, [event |-> "done collecting",
                       appId |-> s1.currentApp,
                       pageNum |-> s1.currentPage,
                       appsRemaining |-> Len(s1.appIds),
                       error |-> "Retry limit reached"])

\* requeue() asking for the page after the failed one
requeue_nextPage(st) ==
    LET s1 == [st EXCEPT !.retries[st.currentApp] = @ + 1,
                         !.consecFails = @ + 1]
    IN  IF s1.retries[s1.currentApp] < maxRetries
        THEN queuePage([s1 EXCEPT !.currentPage = @ + 1])
        ELSE processNextApp(
                 emit(s1, [event |-> "done collecting",
                           appId |-> s1.currentApp,
                           pageNum |-> s1.currentPage,
                           appsRemaining |-> Len(s1.appIds),
                           error |-> "Retry limit reached"]))

\* requeue()
requeue(st) ==
    LET s1 == [st EXCEPT !.retries[st.currentApp] = @ + 1,
                         !.consecFails = @ + 1]
    IN  IF s1.retries[s1.currentApp] < maxRetries
        THEN queuePage(s1)
        ELSE processNextApp(
                 emit(s1, [event |-> "done collecting",
                           appId |-> s1.currentApp,
                           pageNum |-> s1.currentPage,
                           appsRemaining |-> Len(s1.appIds),
                           error |-> "Retry limit reached"]))

\* continueProcessingApp() holding on to maxPages
continueProcessingApp_honoursMaxPages(st) ==
    IF st.nextStepDecided # "true"
    THEN IF maxPages = 0 \/ st.currentPage + 1 < maxPages + firstPage
         THEN queuePage([st EXCEPT !.nextStepDecided = "true",
                                   !.currentPage = @ + 1])
         ELSE [st EXCEPT !.nextStepDecided = "true"]
    ELSE st

\* continueProcessingApp() going two pages on
continueProcessingApp_skipsPage(st) ==
    IF st.nextStepDecided # "true"
    THEN queuePage([st EXCEPT !.nextStepDecided = "true",
                              !.currentPage = @ + 2])
    ELSE st

\* continueProcessingApp() without the nextStepDecided guard
continueProcessingApp_unguarded(st) ==
    queuePage([st EXCEPT !.nextStepDecided = "true", !.currentPage = @ + 1])

\* continueProcessingApp()
continueProcessingApp(st) ==
    IF st.nextStepDecided # "true"
    THEN queuePage([st EXCEPT !.nextStepDecided = "true",
                              !.currentPage = @ + 1])
    ELSE st

\* stopProcessingApp() without the nextStepDecided guard
stopProcessingApp_unguarded(st) ==
    LET s1 == [st EXCEPT !.nextStepDecided = "true"]
    IN  processNextApp(
            emit(s1, [event |-> "done collecting",
                      appId |-> s1.currentApp,
                      pageNum |-> s1.currentPage,
                      appsRemaining |-> Len(s1.appIds)]))

\* stopProcessingApp() reporting the stop as an error
stopProcessingApp_withError(st) ==
    IF st.nextStepDecided # "true"
    THEN LET s1 == [st EXCEPT !.nextStepDecided = "true"]
         IN  processNextApp(
                 emit(s1, [event |-> "done collecting",
                           appId |-> s1.currentApp,
                           pageNum |-> s1.currentPage,
                           appsRemaining |-> Len(s1.appIds),
                           error |-> "Stopped"]))
    ELSE st

\* stopProcessingApp()
stopProcessingApp(st) ==
    IF st.nextStepDecided # "true"
    THEN LET s1 == [st EXCEPT !.nextStepDecided = "true"]
         IN  processNextApp(
                 emit(s1, [event |-> "done collecting",
                           appId |-> s1.currentApp,
                           pageNum |-> s1.currentPage,
                           appsRemaining |-> Len(s1.appIds)]))
    ELSE st

\* a call of the function a payload field is bound to
call(fn, st) ==
    IF fn = "continueProcessingApp" THEN continueProcessingApp(st)
    ELSE stopProcessingApp(st)

\* new Date(dateStr): a Date, or the Invalid Date
newDate(dateStr) == IF dateStr = "date" THEN "Date" ELSE "Invalid Date"

\* the number of decimal digits of n (4: more than 3)
NumDigits(n) == IF n < 10 THEN 1 ELSE IF n < 100 THEN 2 ELSE IF n < 1000 THEN 3 ELSE 4

\* /width: ([0-9]{2,3})%/.exec(ratingStr): null, or the match with its group.
\* exec(undefined) matches against the text 'undefined'.
widthRegexExec(ratingStr) ==
    IF ratingStr.kind = "width" /\ NumDigits(ratingStr.w) \in 2..3
    THEN [null |-> FALSE, group |-> ratingStr.w]
    ELSE [null |-> TRUE]

\* Number(group) / 20, as whole stars and twentieths of a star
ratingOf(group) == [whole |-> group \div 20, twentieths |-> group % 20]

\* htmlToReviews: the _.forEach over the .single-review nodes from node i on.
\* widthRegex.exec(ratingStr) is null for a fragment without a rating match,
\* so reading [1] of it throws; the catch turns that into { error: err }.
\* (title and text of a review are left out.)
RECURSIVE forEachReview(_, _, _, _, _, _)
forEachReview(st, html, i, reviews, appId, pageNum) ==
    IF i > Len(html)
    THEN [st |-> st, error |-> FALSE, reviews |-> reviews]
    ELSE LET matched == widthRegexExec(html[i].style)
         IN  IF matched.null
             THEN [st |-> st, error |-> TRUE, reviews |-> <<>>]
             ELSE LET review == [id |-> html[i].id,
                                 date |-> newDate(html[i].dateStr),
                                 rating |-> ratingOf(matched.group)]
                  IN  forEachReview(
                          emit(st, [event |-> "review", appId |-> appId,
                                    pageNum |-> pageNum, review |-> review]),
                          html, i + 1, Append(reviews, review), appId, pageNum)

\* htmlToReviews without its emit('review', ...)
htmlToReviews_silent(st, html, appId, pageNum) ==
    [forEachReview(st, html, 1, <<>>, appId, pageNum) EXCEPT !.st = st]

htmlToReviews(st, html, appId, pageNum) ==
    forEachReview(st, html, 1, <<>>, appId, pageNum)

\* the test with the page limit off by one
autoContinue_offByOne(st, numReviewsFound) ==
    numReviewsFound > 0
    /\ (maxPages = 0 \/ st.currentPage < maxPages + firstPage)

\* the test without the number of reviews
autoContinue_ignoresCount(st, numReviewsFound) ==
    maxPages = 0 \/ st.currentPage + 1 < maxPages + firstPage

\* the test without the page limit
autoContinue_noLimit(st, numReviewsFound) == numReviewsFound > 0

\* parse(): the test that lets the controller go on by itself
autoContinue(st, numReviewsFound) ==
    numReviewsFound > 0
    /\ (maxPages = 0 \/ st.currentPage + 1 < maxPages + firstPage)

\* the payload with continue bound to continueProcessingApp for every page
pageCompletePayload_alwaysContinue(st, reviews) ==
    LET objToEmit == [event |-> "page complete", appId |-> st.currentApp,
                      pageNum |-> st.currentPage, reviews |-> reviews]
    IN  IF checkBeforeContinue
        THEN [stop |-> "stopProcessingApp",
              continue |-> "continueProcessingApp"] @@ objToEmit
        ELSE objToEmit

\* parse(): the payload of 'page complete'
pageCompletePayload(st, reviews) ==
    LET objToEmit == [event |-> "page complete", appId |-> st.currentApp,
                      pageNum |-> st.currentPage, reviews |-> reviews]
    IN  IF checkBeforeContinue
        THEN [stop |-> "stopProcessingApp",
              continue |-> IF Len(reviews) > 0 THEN "continueProcessingApp"
                           ELSE "stopProcessingApp"] @@ objToEmit
        ELSE objToEmit

\* the branch without the reset of the retry count
pageExtracted_keepsRetries(st, reviews) ==
    LET numReviewsFound == Len(reviews)
        s1 == [st EXCEPT !.consecFails = 0,
                         !.nextStepDecided = "false",
                         !.lastOutcome = "Extracted"]
        s2 == emit(s1, pageCompletePayload(s1, reviews))
    IN  IF ~checkBeforeContinue
        THEN IF autoContinue(s2, numReviewsFound)
             THEN continueProcessingApp(s2)
             ELSE stopProcessingApp(s2)
        ELSE s2

\* the branch deciding by itself whatever checkBeforeContinue is
pageExtracted_decidesItself(st, reviews) ==
    LET numReviewsFound == Len(reviews)
        s1 == [st EXCEPT !.retries[st.currentApp] = 0,
                         !.consecFails = 0,
                         !.nextStepDecided = "false",
                         !.lastOutcome = "Extracted"]
        s2 == emit(s1, pageCompletePayload(s1, reviews))
    IN  IF autoContinue(s2, numReviewsFound)
        THEN continueProcessingApp(s2)
        ELSE stopProcessingApp(s2)

\* parse(): the branch taken once htmlToReviews returned without error
pageExtracted(st, reviews) ==
    LET numReviewsFound == Len(reviews)
        s1 == [st EXCEPT !.retries[st.currentApp] = 0,
                         !.consecFails = 0,
                         !.nextStepDecided = "false",
                         !.lastOutcome = "Extracted"]
        s2 == emit(s1, pageCompletePayload(s1, reviews))
    IN  IF ~checkBeforeContinue
        THEN IF autoContinue(s2, numReviewsFound)
             THEN continueProcessingApp(s2)
             ELSE stopProcessingApp(s2)
        ELSE s2

\* parse(result) taking an Empty response as a failure
parse_emptyIsFailure(st, result) ==
    LET html == responseToHtml(result)
    IN  CASE html.type = "undefined" ->
                 requeue([st EXCEPT !.lastOutcome = "Invalid"])
          [] html.type = "null" ->
                 requeue([st EXCEPT !.lastOutcome = "Empty"])
          [] html.type = "string" ->
                 LET converted == htmlToReviews(st, html.html, st.currentApp,
                                                st.currentPage)
                 IN  IF converted.error
                     THEN requeue([converted.st EXCEPT !.lastOutcome = "ParseError"])
                     ELSE pageExtracted(converted.st, converted.reviews)
          [] OTHER -> [st EXCEPT !.lastOutcome = "Unhandled"]

\* parse(result)
parse(st, result) ==
    LET html == responseToHtml(result)
    IN  CASE html.type = "undefined" ->
                 requeue([st EXCEPT !.lastOutcome = "Invalid"])
          [] html.type = "null" ->
                 emit([st EXCEPT !.lastOutcome = "Empty"],
                      [event |-> "done collecting", appId |-> st.currentApp,
                       pageNum |-> st.currentPage])
          [] html.type = "string" ->
                 LET converted == htmlToReviews(st, html.html, st.currentApp,
                                                st.currentPage)
                 IN  IF converted.error
                     THEN requeue([converted.st EXCEPT !.lastOutcome = "ParseError"])
                     ELSE pageExtracted(converted.st, converted.reviews)
          [] OTHER -> [st EXCEPT !.lastOutcome = "Unhandled"]

\* processRequest(error, result): the Crawler's callback
processRequest(st, error, result) ==
    IF error THEN requeue([st EXCEPT !.lastOutcome = "TransportError"])
    ELSE parse(st, result)

(* ------------------------------ actions -------------------------------- *)
\* new Collector(list, options): the state after construction
Init ==
    /\ maxPages \in 0..MaxPagesOpt
    /\ maxRetries \in 0..MaxRetriesOpt
    /\ checkBeforeContinue \in BOOLEAN
    /\ \E list \in AppLists :
          /\ apps = constructorKeys(list)
          /\ retries = [a \in {list[i] : i \in 1..Len(list)} |-> 0]
    /\ run = 0
    /\ appIds = <<>>
    /\ currentApp = "undefined"
    /\ currentPage = firstPage
    /\ nextStepDecided = "undefined"
    /\ timers = 0
    /\ queue = <<>>
    /\ emitted = <<>>
    /\ lastPayload = NoPayload
    /\ olderContinue = FALSE
    /\ handler = "constructor"
    /\ lastOutcome = "none"
    /\ doneWithApps = 0
    /\ pageCompletes = 0
    /\ consecFails = 0
    /\ doneCollecting = [a \in DOMAIN retries |-> 0]
    /\ applied = NoCall

\* new Collector(list, { maxPages: 1, maxRetries: 1, checkBeforeContinue })
\* for a list of ids of both kinds; the list given is kept in applied
InitApps ==
    /\ maxPages = 1
    /\ maxRetries = 1
    /\ checkBeforeContinue \in BOOLEAN
    /\ \E list \in AllAppLists :
          /\ apps = constructorKeys(list)
          /\ retries = [a \in {list[i] : i \in 1..Len(list)} |-> 0]
          /\ applied = [fn |-> "constructor", list |-> list]
    /\ run = 0
    /\ appIds = <<>>
    /\ currentApp = "undefined"
    /\ currentPage = firstPage
    /\ nextStepDecided = "undefined"
    /\ timers = 0
    /\ queue = <<>>
    /\ emitted = <<>>
    /\ lastPayload = NoPayload
    /\ olderContinue = FALSE
    /\ handler = "constructor"
    /\ lastOutcome = "none"
    /\ doneWithApps = 0
    /\ pageCompletes = 0
    /\ consecFails = 0
    /\ doneCollecting = [a \in DOMAIN retries |-> 0]

\* nothing of the run is pending: no timer, no request, no decision awaited
AtRest == timers = 0 /\ queue = <<>> /\ nextStepDecided # "false"

\* collect(): a fresh closure (its variables undefined; currentPage is not
\* read before processNextApp sets it) and Crawler, then processNextApp().
\* A second collect() is followed once the run before it is at rest.
Collect ==
    /\ run < MaxRuns
    /\ AtRest
    /\ run' = run + 1
    /\ handler' = "collect"
    /\ Apply(processNextApp(
           [St EXCEPT !.appIds = apps, !.currentApp = "undefined",
                      !.currentPage = firstPage, !.nextStepDecided = "undefined",
                      !.emitted = <<>>, !.lastPayload = NoPayload,
                      !.olderContinue = FALSE, !.lastOutcome = "none",
                      !.doneWithApps = 0, !.pageCompletes = 0,
                      !.consecFails = 0,
                      !.doneCollecting = [a \in DOMAIN retries |-> 0]]))
    /\ UNCHANGED <<opts, applied>>

\* the timer of queuePage() expires: the url is built from currentApp and
\* currentPage as they are now, and the request is queued on the Crawler
TimerFire ==
    /\ timers > 0
    /\ timers' = timers - 1
    /\ queue' = Append(queue, [appId |-> currentApp, pageNum |-> currentPage])
    /\ emitted' = <<>>
    /\ handler' = "timer"
    /\ UNCHANGED <<opts, retries, run, appIds, currentApp, currentPage,
                   nextStepDecided, lastPayload, olderContinue, lastOutcome,
                   doneWithApps, pageCompletes, consecFails,
                   doneCollecting, applied>>

\* a callback of the run: st is the state it leaves. Crawls are followed up
\* to page MaxPageNum.
Callback(name, st) ==
    /\ st.currentPage <= MaxPageNum
    /\ Apply(st)
    /\ handler' = name
    /\ UNCHANGED <<opts, run, applied>>

\* the Crawler calls back with a transport error
RequestFailed ==
    /\ queue # <<>>
    /\ Callback("processRequest",
                processRequest([St EXCEPT !.queue = Tail(queue), !.emitted = <<>>],
                               TRUE, [contentType |-> "none"]))

\* the Crawler calls back with a response
RequestCompleted ==
    /\ queue # <<>>
    /\ \E result \in Responses :
          Callback("processRequest",
                   processRequest([St EXCEPT !.queue = Tail(queue), !.emitted = <<>>],
                                  FALSE, result))

\* a listener calls the continue() of the latest 'page complete' payload
UserContinue ==
    /\ HasContinue(lastPayload)
    /\ Callback("continue", call(lastPayload.continue, [St EXCEPT !.emitted = <<>>]))

\* a listener calls the stop() of a 'page complete' payload
UserStop ==
    /\ HasStop(lastPayload)
    /\ Callback("stop", call(lastPayload.stop, [St EXCEPT !.emitted = <<>>]))

\* a listener calls the continue() of an earlier payload of the run that was
\* bound to continueProcessingApp
UserOlderContinue ==
    /\ olderContinue
    /\ Callback("olderContinue", continueProcessingApp([St EXCEPT !.emitted = <<>>]))

Next ==
    \/ Collect
    \/ TimerFire
    \/ RequestFailed
    \/ RequestCompleted
    \/ UserContinue
    \/ UserStop
    \/ UserOlderContinue

Spec == Init /\ [][Next]_vars

\* the same run for the lists of ids of both kinds
SpecApps == InitApps /\ [][Next]_vars

(* ---------------- one response, decoded and handled -------------------- *)
\* The state of a first run whose request for page 0 of the first
\* application is in flight after k failed attempts: collect() and the timer
\* ran, and each failure was followed by requeue() and the timer again.
InitRequest ==
    /\ maxPages \in 0..MaxPagesOpt
    /\ maxRetries \in 0..MaxRetriesOpt
    /\ checkBeforeContinue \in BOOLEAN
    /\ \E list \in AppLists \ {<<>>} :
          /\ apps = constructorKeys(list)
          /\ currentApp = constructorKeys(list)[1]
          /\ appIds = Tail(constructorKeys(list))
          /\ \E k \in 0..MaxRetriesOpt :
                /\ k = 0 \/ k < maxRetries
                /\ retries = [a \in {list[i] : i \in 1..Len(list)} |->
                                 IF a = constructorKeys(list)[1] THEN k ELSE 0]
                /\ consecFails = k
                /\ doneCollecting = [a \in {list[i] : i \in 1..Len(list)} |-> 0]
                /\ lastOutcome = IF k = 0 THEN "none" ELSE "TransportError"
          /\ queue = <<[appId |-> constructorKeys(list)[1], pageNum |-> firstPage]>>
    /\ run = 1
    /\ currentPage = firstPage
    /\ nextStepDecided = "undefined"
    /\ timers = 0
    /\ emitted = <<>>
    /\ lastPayload = NoPayload
    /\ olderContinue = FALSE
    /\ handler = "timer"
    /\ doneWithApps = 0
    /\ pageCompletes = 0
    /\ applied = NoCall

\* responseToHtml(response), applied to a response alone
Decode ==
    /\ applied = NoCall
    /\ \E response \in AllResponses :
          applied' = [fn |-> "responseToHtml", response |-> response,
                   result |-> responseToHtml(response)]
    /\ UNCHANGED <<opts, retries, run, appIds, currentApp, currentPage,
                   nextStepDecided, timers, queue, emitted, lastPayload,
                   olderContinue, handler, lastOutcome, doneWithApps,
                   pageCompletes, consecFails, doneCollecting>>

\* the Crawler calls back with that response
Handle ==
    /\ applied.fn = "responseToHtml"
    /\ queue # <<>>
    /\ Apply(processRequest([St EXCEPT !.queue = Tail(queue), !.emitted = <<>>],
                            FALSE, applied.response))
    /\ handler' = "processRequest"
    /\ applied' = [applied EXCEPT !.fn = "parse"]
    /\ UNCHANGED <<opts, run>>

NextResponse == Decode \/ Handle

SpecResponse == InitRequest /\ [][NextResponse]_vars

(* ---- a page of HTML: htmlToReviews applied to it, then the controller ---- *)
\* the closure state once collect() on a new Collector of the one application
\* a has queued its first request
firstRequest(a) ==
    [retries |-> [b \in {a} |-> 0], appIds |-> <<>>, currentApp |-> a,
     currentPage |-> firstPage, nextStepDecided |-> "undefined", timers |-> 0,
     queue |-> <<[appId |-> a, pageNum |-> firstPage]>>, emitted |-> <<>>,
     lastPayload |-> NoPayload, olderContinue |-> FALSE, lastOutcome |-> "none",
     doneWithApps |-> 0, pageCompletes |-> 0, consecFails |-> 0,
     doneCollecting |-> [b \in {a} |-> 0]]

\* from a request in flight to the next: the response carries one well-formed
\* review, the listener calls continue() where the controller waits for it,
\* and the timer of queuePage() expires
nextRequest(st) ==
    LET onePage == [contentType |-> JsonContentType,
                    body |-> [kind |-> "fourstring", html |-> <<wellFormed>>]]
        handled == processRequest([st EXCEPT !.queue = Tail(@), !.emitted = <<>>],
                                  FALSE, onePage)
        decided == IF checkBeforeContinue
                   THEN call(handled.lastPayload.continue,
                             [handled EXCEPT !.emitted = <<>>])
                   ELSE handled
    IN  [decided EXCEPT !.timers = @ - 1,
                        !.queue = Append(@, [appId |-> decided.currentApp,
                                             pageNum |-> decided.currentPage]),
                        !.emitted = <<>>]

RECURSIVE requestOfPage(_, _)
requestOfPage(a, p) ==
    IF p = firstPage THEN firstRequest(a) ELSE nextRequest(requestOfPage(a, p - 1))

\* collect() on a new Collector of one application with the options
\* { maxPages: 0, checkBeforeContinue }, followed to the request for any page
InitExtract ==
    /\ maxPages = 0
    /\ maxRetries = MaxRetriesOpt
    /\ checkBeforeContinue \in BOOLEAN
    /\ \E a \in AppIdSet :
          /\ apps = <<a>>
          /\ \E p \in firstPage..MaxPageNum :
                LET st == requestOfPage(a, p)
                IN  /\ retries = st.retries
                    /\ appIds = st.appIds
                    /\ currentApp = st.currentApp
                    /\ currentPage = st.currentPage
                    /\ nextStepDecided = st.nextStepDecided
                    /\ timers = st.timers
                    /\ queue = st.queue
                    /\ emitted = st.emitted
                    /\ lastPayload = st.lastPayload
                    /\ olderContinue = st.olderContinue
                    /\ lastOutcome = st.lastOutcome
                    /\ doneWithApps = st.doneWithApps
                    /\ pageCompletes = st.pageCompletes
                    /\ consecFails = st.consecFails
                    /\ doneCollecting = st.doneCollecting
    /\ run = 1
    /\ handler = "timer"
    /\ applied = NoCall

\* htmlToReviews(html, currentApp, currentPage, emit), applied to a page alone
Extract ==
    /\ applied = NoCall
    /\ \E html \in AllHtmls :
          LET converted == htmlToReviews([St EXCEPT !.emitted = <<>>], html,
                                         currentApp, currentPage)
          IN  /\ applied' = [fn |-> "htmlToReviews", html |-> html,
                             appId |-> currentApp, pageNum |-> currentPage,
                             error |-> converted.error,
                             reviews |-> converted.reviews]
              /\ emitted' = converted.st.emitted
    /\ UNCHANGED <<opts, retries, run, appIds, currentApp, currentPage,
                   nextStepDecided, timers, queue, lastPayload,
                   olderContinue, handler, lastOutcome, doneWithApps,
                   pageCompletes, consecFails, doneCollecting>>

\* the Crawler calls back with a JSON response that wraps that page
HandlePage ==
    /\ applied.fn = "htmlToReviews"
    /\ queue # <<>>
    /\ Apply(processRequest([St EXCEPT !.queue = Tail(queue), !.emitted = <<>>],
                            FALSE,
                            [contentType |-> JsonContentType,
                             body |-> [kind |-> "fourstring", html |-> applied.html]]))
    /\ handler' = "processRequest"
    /\ applied' = [applied EXCEPT !.fn = "parse"]
    /\ UNCHANGED <<opts, run>>

NextExtract == Extract \/ HandlePage

SpecExtract == InitExtract /\ [][NextExtract]_vars

(* ------------------------ reading the events --------------------------- *)
EventsOf(seq, name) == {i \in 1..Len(seq) : seq[i].event = name}
Emits(seq, name) == EventsOf(seq, name) # {}
HasError(ev) == "error" \in DOMAIN ev
\* the 'done collecting' events of seq that carry an error / carry none
ErrorDone(seq) == {i \in EventsOf(seq, "done collecting") : HasError(seq[i])}
PlainDone(seq) == {i \in EventsOf(seq, "done collecting") : ~HasError(seq[i])}
\* the one 'page complete' event of seq
PageComplete(seq) == seq[CHOOSE i \in EventsOf(seq, "page complete") : TRUE]

Failures == {"TransportError", "Invalid", "ParseError"}
UserCalls == {"continue", "stop", "olderContinue"}

\* the step starts the application at the front of the work queue at page 0,
\* or, the work queue being empty, emits 'done with apps' as its last event
NextAppOrDone ==
    IF appIds # <<>>
    THEN /\ currentApp' = Head(appIds)
         /\ appIds' = Tail(appIds)
         /\ currentPage' = firstPage
         /\ timers' = timers + 1
         /\ ~Emits(emitted', "done with apps")
    ELSE /\ emitted'[Len(emitted')].event = "done with apps"
         /\ Cardinality(EventsOf(emitted', "done with apps")) = 1
         /\ doneWithApps' = 1
         /\ timers' = 0

(* ------------------------------- C1 ------------------------------------ *)
\* C1: with two or more applications given, every step that emits a 'done
\* collecting' (a stop decision, an Empty response, retry exhaustion) also
\* starts the next queued application at page 0, or, after the last
\* application, emits 'done with apps', which is then emitted exactly once.
C1_FinishedStartsNext ==
    [][(Len(apps) >= 2 /\ Emits(emitted', "done collecting")) => NextAppOrDone]_vars

(* ------------------------------- C2 ------------------------------------ *)
\* C2: in automatic mode with maxPages > 0, once every issued request has
\* completed with a transport error or an Html, Empty, Invalid or ParseError
\* outcome and nothing is pending, the run has emitted 'done with apps'.
C2_RunEndsWithDoneWithApps ==
    (/\ run >= 1
     /\ ~checkBeforeContinue
     /\ maxPages > 0
     /\ lastOutcome # "Unhandled"
     /\ timers = 0
     /\ queue = <<>>) => doneWithApps = 1

(* ------------------------------- C3 ------------------------------------ *)
\* the step is a processRequest callback that finds a failure which uses up
\* the retry budget of the current application
Exhausting ==
    /\ handler' = "processRequest"
    /\ lastOutcome' \in Failures
    /\ retries[currentApp] + 1 >= maxRetries

\* C3: a failure that exhausts the retry budget emits exactly one 'done
\* collecting', with an error, for the current application and page, and in
\* the same step the next queued application is started at page 0 or, the
\* queue being empty, 'done with apps' is emitted; and a 'done collecting'
\* with an error is emitted by no other step.
C3_ExhaustionNotFatal ==
    [][/\ Exhausting =>
            /\ Cardinality(ErrorDone(emitted')) = 1
            /\ PlainDone(emitted') = {}
            /\ \A i \in ErrorDone(emitted') :
                  /\ emitted'[i].appId = currentApp
                  /\ emitted'[i].pageNum = currentPage
            /\ NextAppOrDone
       /\ ErrorDone(emitted') # {} => Exhausting]_vars

C3_Witness ==
    /\ handler = "processRequest"
    /\ ErrorDone(emitted) # {}
    /\ currentApp = "b"
    /\ currentPage = firstPage
    /\ timers = 1
    /\ apps = <<"a", "b">>

(* ------------------------------- C4 ------------------------------------ *)
\* C4: for maxRetries >= 1, a failing request ends the application with a
\* retry-limit error exactly when it is the maxRetries-th consecutive failure
\* of that application; every earlier one leads to a re-fetch.
C4_ExactlyAtRthFailure ==
    [][(handler' = "processRequest" /\ lastOutcome' \in Failures /\ maxRetries >= 1) =>
          IF consecFails + 1 = maxRetries
          THEN ErrorDone(emitted') # {}
          ELSE /\ ~Emits(emitted', "done collecting")
               /\ timers' = timers + 1
               /\ currentApp' = currentApp
               /\ currentPage' = currentPage]_vars

(* ------------------------------- C5 ------------------------------------ *)
\* the step goes on to the next page of the current application
Advances ==
    /\ currentApp' = currentApp
    /\ appIds' = appIds
    /\ currentPage' = currentPage + 1
    /\ timers' = timers + 1
    /\ ~Emits(emitted', "done collecting")

\* the step ends the current application without an error
Stops ==
    /\ Cardinality(PlainDone(emitted')) = 1
    /\ ErrorDone(emitted') = {}
    /\ \A i \in PlainDone(emitted') :
          /\ emitted'[i].appId = currentApp
          /\ emitted'[i].pageNum = currentPage
          /\ emitted'[i].appsRemaining = Len(appIds)
    /\ NextAppOrDone
    /\ appIds = <<>> => currentPage' = currentPage

\* C5: with checkBeforeContinue false, the callback that extracts page p
\* advances to page p + 1 if the page yielded at least one review and
\* (maxPages = 0 or p + 1 < maxPages), and stops the application otherwise.
C5_AutoAdvanceRule ==
    [][(~checkBeforeContinue /\ handler' = "processRequest" /\ lastOutcome' = "Extracted") =>
          LET pc == PageComplete(emitted')
          IN  /\ pc.appId = currentApp
              /\ pc.pageNum = currentPage
              /\ IF Len(pc.reviews) >= 1
                    /\ (maxPages = 0 \/ currentPage + 1 < maxPages)
                 THEN Advances
                 ELSE Stops]_vars

\* with maxPages = 2, page 1 yielded a review and the application stopped
C5_Witness ==
    /\ ~checkBeforeContinue
    /\ maxPages = 2
    /\ handler = "processRequest"
    /\ lastOutcome = "Extracted"
    /\ PageComplete(emitted).pageNum = 1
    /\ Len(PageComplete(emitted).reviews) >= 1
    /\ PlainDone(emitted) # {}

(* ------------------------------- C6 ------------------------------------ *)
C6_Limit ==
    (~checkBeforeContinue /\ maxPages > 0) =>
        /\ \A i \in 1..Len(queue) : queue[i].pageNum < maxPages
        /\ timers > 0 => currentPage < maxPages
        /\ pageCompletes <= maxPages

C6_Unlimited ==
    (~checkBeforeContinue /\ maxPages = 0 /\ Emits(emitted', "done collecting")) =>
        \/ lastOutcome' \in Failures \cup {"Empty"}
        \/ /\ lastOutcome' = "Extracted"
           /\ PageComplete(emitted').reviews = <<>>

\* C6: with checkBeforeContinue false and maxPages = M > 0, no request for a
\* page numbered M or more is pending or in flight and at most M 'page
\* complete' events were emitted for the current application; with
\* maxPages = 0 an application ends only by a zero-review page, an Empty
\* response or a failure.
C6_MaxPagesBound == []C6_Limit /\ [][C6_Unlimited]_vars

\* the last page the limit allows has completed
C6_Witness ==
    /\ ~checkBeforeContinue
    /\ maxPages = 2
    /\ pageCompletes = 2
    /\ Len(PageComplete(emitted).reviews) >= 1

(* ------------------------------- C7 ------------------------------------ *)
\* C7: with checkBeforeContinue true, a call of a callback while the decision
\* of the cycle is open fixes it, and a call after it was fixed emits
\* nothing and changes neither the page, the application, the work queue,
\* the retry counts nor the pending requests.
C7_FirstDecisionWins ==
    [][(checkBeforeContinue /\ handler' \in UserCalls) =>
          IF nextStepDecided = "true"
          THEN /\ emitted' = <<>>
               /\ UNCHANGED <<retries, appIds, currentApp, currentPage,
                              nextStepDecided, timers, queue, lastPayload,
                              doneWithApps, pageCompletes>>
          ELSE /\ nextStepDecided' = "true"
               /\ Advances \/ Stops]_vars

\* stop() was called after continue() had fixed the decision of the cycle
C7_Witness ==
    /\ checkBeforeContinue
    /\ handler = "stop"
    /\ emitted = <<>>
    /\ nextStepDecided = "true"
    /\ lastOutcome = "Extracted"
    /\ timers = 1
    /\ currentPage = lastPayload.pageNum + 1

(* ------------------------------- C8 ------------------------------------ *)
\* C8: with checkBeforeContinue true, after a page that yielded zero reviews
\* the payload's continue() and its stop() both stop the application: one
\* 'done collecting' without error for the current page, no advance, then
\* the next application or 'done with apps'.
C8_ContinueOnEmptyPageStops ==
    [][(/\ checkBeforeContinue
        /\ handler' \in {"continue", "stop"}
        /\ nextStepDecided = "false"
        /\ lastPayload.reviews = <<>>) => (Stops /\ nextStepDecided' = "true")]_vars

\* continue() was called for a zero-review page and ended the application
C8_Witness ==
    /\ checkBeforeContinue
    /\ handler = "continue"
    /\ lastPayload.reviews = <<>>
    /\ PlainDone(emitted) # {}
    /\ emitted[1].pageNum = lastPayload.pageNum

(* ------------------------------- C9 ------------------------------------ *)
C9_Payload ==
    /\ \A i \in EventsOf(emitted, "page complete") :
          /\ HasContinue(emitted[i]) <=> checkBeforeContinue
          /\ HasStop(emitted[i]) <=> checkBeforeContinue
    /\ checkBeforeContinue =>
          /\ Emits(emitted, "page complete") => nextStepDecided = "false"
          /\ nextStepDecided = "false" =>
                /\ timers = 0
                /\ queue = <<>>
                /\ ~Emits(emitted, "done collecting")
    /\ ~checkBeforeContinue =>
          /\ nextStepDecided # "false"
          /\ Emits(emitted, "page complete") =>
                (timers = 1 \/ PlainDone(emitted) # {})

C9_Waits == (checkBeforeContinue /\ nextStepDecided = "false") => handler' \in UserCalls

\* C9: with checkBeforeContinue true every 'page complete' payload carries
\* continue and stop, and from its emit on nothing is requested and no 'done
\* collecting' is emitted until a callback is called; with checkBeforeContinue
\* false the payload carries neither and the emitting callback itself goes on
\* to the next page or ends the application.
C9_WaitsForDecision == []C9_Payload /\ [][C9_Waits]_vars

\* a page was completed and the run waits for the decision
C9_Witness ==
    /\ checkBeforeContinue
    /\ Emits(emitted, "page complete")
    /\ nextStepDecided = "false"
    /\ appIds # <<>>

(* ------------------------------- C10 ----------------------------------- *)
\* C10: with checkBeforeContinue true, a continue() that decides the cycle of
\* a page with at least one review advances to the next page whatever
\* maxPages is, and the callback that extracts a page never ends the
\* application itself.
C10_MaxPagesIgnored ==
    [][checkBeforeContinue =>
          /\ (/\ handler' \in {"continue", "olderContinue"}
              /\ nextStepDecided = "false"
              /\ lastPayload.reviews # <<>>) =>
                 (Advances /\ emitted' = <<>> /\ timers' = 1)
          /\ (handler' = "processRequest" /\ lastOutcome' = "Extracted") =>
                 /\ ~Emits(emitted', "done collecting")
                 /\ UNCHANGED <<currentApp, currentPage, appIds>>
                 /\ timers' = 0]_vars

\* continue() led to a page at or beyond maxPages
C10_Witness ==
    /\ checkBeforeContinue
    /\ maxPages >= 1
    /\ handler = "continue"
    /\ currentPage >= maxPages
    /\ currentPage = lastPayload.pageNum + 1
    /\ timers = 1

(* ------------------------------- C11 ----------------------------------- *)
\* the content-type header names JSON
DeclaresJson(contentType) == contentType \in {JsonContentType, "application/json"}

\* the handled response was taken as a failure: the retry count of the
\* application went up by one, nothing of a page was emitted, and the same
\* page is fetched again or the retry limit ended the application
TakenAsFailure ==
    /\ lastOutcome' = "Invalid"
    /\ retries'[currentApp] = retries[currentApp] + 1
    /\ ~Emits(emitted', "review")
    /\ ~Emits(emitted', "page complete")
    /\ PlainDone(emitted') = {}
    /\ IF retries[currentApp] + 1 < maxRetries
       THEN /\ emitted' = <<>>
            /\ timers' = 1
            /\ UNCHANGED <<currentApp, currentPage, appIds>>
       ELSE Cardinality(ErrorDone(emitted')) = 1

\* C11: for every response whose content-type does not declare JSON, whatever
\* its body, responseToHtml returns undefined (Invalid, never a string or
\* null), and the controller handles the response as a failure to retry.
C11_NonJsonIsInvalid ==
    /\ []((applied.fn # "none" /\ ~DeclaresJson(applied.response.contentType))
            => applied.result.type = "undefined")
    /\ [][(applied'.fn = "parse" /\ ~DeclaresJson(applied'.response.contentType))
            => TakenAsFailure]_vars

\* a page of reviews under a text/html content-type was handled and is retried
C11_Witness ==
    /\ applied.fn = "parse"
    /\ applied.response.contentType = "text/html; charset=utf-8"
    /\ applied.response.body.kind = "fourstring"
    /\ Len(applied.response.body.html) > 0
    /\ lastOutcome = "Invalid"
    /\ timers = 1

(* ------------------------------- C12 ----------------------------------- *)
\* C12: for every response with the JSON content-type whose body is the empty
\* array [] or an array whose first element is not an array of 4 elements,
\* responseToHtml returns null (Empty), not undefined (Invalid).
C12_EmptyArrayIsEmpty ==
    (/\ applied.fn # "none"
     /\ applied.response.contentType = JsonContentType
     /\ applied.response.body.kind \in {"emptyarray", "firstnot4"})
        => applied.result.type = "null"

(* ------------------------------- C13 ----------------------------------- *)
\* the body is missing, empty or a text JSON.parse throws on
Unparsable(body) == body.kind \in {"missing", "emptystring", "unparsable"}

\* C13: for every response with the JSON content-type whose body is not
\* parsable as JSON (a missing and an empty body included), responseToHtml
\* returns undefined (Invalid) and throws nothing, and the controller counts
\* the response as one failure against the retry limit.
C13_UnparsableIsInvalid ==
    /\ []((/\ applied.fn # "none"
           /\ applied.response.contentType = JsonContentType
           /\ Unparsable(applied.response.body))
            => applied.result.type = "undefined")
    /\ [][(/\ applied'.fn = "parse"
           /\ applied'.response.contentType = JsonContentType
           /\ Unparsable(applied'.response.body))
            => TakenAsFailure]_vars

\* an empty JSON body was handled as the failure that reaches the retry limit
C13_Witness ==
    /\ applied.fn = "parse"
    /\ applied.response.contentType = JsonContentType
    /\ applied.response.body.kind = "emptystring"
    /\ applied.result.type = "undefined"
    /\ lastOutcome = "Invalid"
    /\ maxRetries > 0
    /\ Cardinality(ErrorDone(emitted)) = 1

(* ------------------------------- C14 ----------------------------------- *)
\* C14: for a page of HTML with N review fragments (N >= 0), htmlToReviews
\* returns exactly N records in document order and emits exactly N 'review'
\* events, the i-th carrying the i-th record with the appId and the pageNum
\* it was given.
C14_NRecordsNEvents ==
    applied.fn = "htmlToReviews" =>
        /\ ~applied.error
        /\ Len(applied.reviews) = Len(applied.html)
        /\ \A i \in 1..Len(applied.html) :
              applied.reviews[i].id = applied.html[i].id
        /\ Len(emitted) = Len(applied.html)
        /\ \A i \in 1..Len(applied.html) :
              /\ emitted[i].event = "review"
              /\ emitted[i].review = applied.reviews[i]
              /\ emitted[i].appId = applied.appId
              /\ emitted[i].pageNum = applied.pageNum

(* ------------------------------- C15 ----------------------------------- *)
\* C15: malformed data of one field never aborts the page. When a fragment has
\* no rating match, no id or a date that does not parse, htmlToReviews still
\* returns a record for every fragment of the page, the id and the date
\* recorded as they were read (undefined, Invalid Date), and the controller
\* takes the page as extracted: 'page complete' lists every fragment and the
\* retry count is not raised.
C15_MalformedFieldsTolerated ==
    /\ [](applied.fn = "htmlToReviews" =>
            /\ ~applied.error
            /\ Len(applied.reviews) = Len(applied.html)
            /\ \A i \in 1..Len(applied.html) :
                  /\ applied.html[i].id = "undefined"
                        => applied.reviews[i].id = "undefined"
                  /\ applied.html[i].dateStr # "date"
                        => applied.reviews[i].date = "Invalid Date")
    /\ [][applied'.fn = "parse" =>
            /\ lastOutcome' = "Extracted"
            /\ retries'[currentApp] = 0
            /\ Emits(emitted', "page complete")
            /\ Len(PageComplete(emitted').reviews) = Len(applied.html)]_vars

(* ------------------------------- C16 ----------------------------------- *)
\* the style attribute reads 'width: W%' with W a whole number in 0..100
WholePercentage(style) == style.kind = "width" /\ style.w \in 0..100

\* C16: for every fragment whose rating style reads 'width: W%' with W a whole
\* percentage in 0..100, the record's rating is W / 20 (5 for 100, 1 for 20,
\* 0 for 0) and lies in 0..5.
C16_RatingIsWidthOver20 ==
    (/\ applied.fn = "htmlToReviews"
     /\ \A i \in 1..Len(applied.html) : WholePercentage(applied.html[i].style))
        => /\ ~applied.error
           /\ Len(applied.reviews) = Len(applied.html)
           /\ \A i \in 1..Len(applied.html) :
                 LET rating == applied.reviews[i].rating
                 IN  /\ rating.twentieths \in 0..19
                     /\ 20 * rating.whole + rating.twentieths = applied.html[i].style.w
                     /\ rating.whole \in 0..5
                     /\ rating.whole = 5 => rating.twentieths = 0

(* ------------------------------- C17 ----------------------------------- *)
\* C17: every 'done collecting' event, whichever path emits it (a stop, an
\* Empty response, the retry limit), carries the id of the application that
\* ended, its current page number, and appsRemaining equal to the number of
\* applications in the work queue when it is emitted.
C17_DoneCollectingFields ==
    [][\A i \in EventsOf(emitted', "done collecting") :
          /\ "appsRemaining" \in DOMAIN emitted'[i]
          /\ emitted'[i].appId = currentApp
          /\ emitted'[i].pageNum = currentPage
          /\ emitted'[i].appsRemaining = Len(appIds)]_vars

(* ------------------------------- C18 ----------------------------------- *)
\* C18: a 'done collecting' event carries an error exactly when the step is a
\* failure that uses up the retry budget; the 'done collecting' of a stop, of
\* the page limit and of an Empty response carries none, and no other event
\* carries an error.
C18_ErrorOnlyOnExhaustion ==
    [][/\ ErrorDone(emitted') # {} <=> Exhausting
       /\ Exhausting => PlainDone(emitted') = {}
       /\ (handler' \in UserCalls \/ lastOutcome' \notin Failures)
             => \A i \in 1..Len(emitted') : ~HasError(emitted'[i])
       /\ \A i \in 1..Len(emitted') :
             HasError(emitted'[i])
                => /\ emitted'[i].event = "done collecting"
                   /\ emitted'[i].error = "Retry limit reached"]_vars

\* a page whose second fragment failed to parse used up the retry budget: the
\* 'review' event of the first fragment carries no error, 'done collecting' does
C18_Witness ==
    /\ handler = "processRequest"
    /\ lastOutcome = "ParseError"
    /\ Emits(emitted, "review")
    /\ Cardinality(ErrorDone(emitted)) = 1
    /\ \A i \in EventsOf(emitted, "review") : ~HasError(emitted[i])

(* ------------------------------- C19 ----------------------------------- *)
\* C19: for every 'page complete' event listing k reviews, the k 'review'
\* events of those records were emitted before it in the same callback, in
\* the order of the list and for the same application and page, with no other
\* event before the 'page complete'; and every 'done collecting' of that
\* application in this run comes after it.
C19_ReviewsThenPageComplete ==
    \A j \in EventsOf(emitted, "page complete") :
        LET ev == emitted[j]
            k  == Len(ev.reviews)
        IN  /\ j = k + 1
            /\ \A i \in 1..k :
                  /\ emitted[i].event = "review"
                  /\ emitted[i].review = ev.reviews[i]
                  /\ emitted[i].appId = ev.appId
                  /\ emitted[i].pageNum = ev.pageNum
            /\ doneCollecting[ev.appId] =
                  Cardinality({d \in EventsOf(emitted, "done collecting") :
                                 d > j /\ emitted[d].appId = ev.appId})

\* the last page of an application: two reviews, 'page complete', and the
\* 'done collecting' of the application after it
C19_Witness ==
    /\ Emits(emitted, "page complete")
    /\ Len(PageComplete(emitted).reviews) = 2
    /\ PageComplete(emitted).reviews[1] # PageComplete(emitted).reviews[2]
    /\ PlainDone(emitted) # {}

(* ------------------------------- C20 ----------------------------------- *)
\* C20: in every reachable state of a collect() run at most one page request
\* is outstanding, waiting for its delay or handed to the Crawler.
C20_OneRequestOutstanding == timers + Len(queue) <= 1

\* a continue() of an earlier payload queued the one outstanding request
C20_Witness ==
    /\ handler = "olderContinue"
    /\ timers = 1
    /\ queue = <<>>

(* ------------------------------- C21 ----------------------------------- *)
\* C21: for any list of ids given to the constructor, repeated ids included,
\* each distinct application is in a run's work at most once, and the
\* applications are taken from the front of the work queue in the order of
\* their first occurrence in the list: the current application followed by
\* the work queue is always the tail of that order.
C21_GivenOrderOnce ==
    (applied.fn = "constructor" /\ currentApp # "undefined") =>
        LET given == insertionOrder(applied.list)
        IN  /\ \A i, j \in 1..Len(apps) : apps[i] = apps[j] => i = j
            /\ Len(appIds) < Len(given)
            /\ SubSeq(given, Len(given) - Len(appIds), Len(given))
                  = <<currentApp>> \o appIds

(* ------------------------------- C22 ----------------------------------- *)
\* C22: an Empty response for page p of an application emits exactly one
\* event, a 'done collecting' without error for that application and page p,
\* and leaves the retry counts, the current page and the work queue as they
\* were, with no request pending; and from then on, in this run, no request
\* is made, no retry count changes and no 'review' or 'page complete' is
\* emitted.
C22_EmptyEndsApp ==
    [][/\ (handler' = "processRequest" /\ lastOutcome' = "Empty")
            => /\ Len(emitted') = 1
               /\ emitted'[1].event = "done collecting"
               /\ ~HasError(emitted'[1])
               /\ emitted'[1].appId = currentApp
               /\ emitted'[1].pageNum = currentPage
               /\ doneCollecting'[currentApp] = 1
               /\ UNCHANGED <<retries, currentApp, currentPage>>
               /\ timers' = 0 /\ queue' = <<>>
       /\ (lastOutcome = "Empty" /\ run' = run)
            => /\ UNCHANGED <<retries, currentApp, currentPage, lastOutcome>>
               /\ timers' = 0 /\ queue' = <<>>
               /\ ~Emits(emitted', "review")
               /\ ~Emits(emitted', "page complete")]_vars

\* page 1 of an application came back Empty after one failed attempt at it
C22_Witness ==
    /\ handler = "processRequest"
    /\ lastOutcome = "Empty"
    /\ currentPage = 1
    /\ retries[currentApp] = 1
    /\ Cardinality(PlainDone(emitted)) = 1

(* ------------------------------- C23 ----------------------------------- *)
\* C23: the retry count of the current application is set to 0 by every page
\* that is extracted (a page without reviews included), goes up by exactly 1
\* at each transport, Invalid or parse failure, and no other step (an Empty
\* response, continue(), stop(), a timer, collect()) changes a retry count.
C23_RetryCountSteps ==
    [][IF handler' = "processRequest" /\ lastOutcome' \in Failures
       THEN retries' = [retries EXCEPT ![currentApp] = @ + 1]
       ELSE IF handler' = "processRequest" /\ lastOutcome' = "Extracted"
            THEN retries' = [retries EXCEPT ![currentApp] = 0]
            ELSE UNCHANGED retries]_vars

\* a page without reviews was extracted in a second collect(): the count is 0
C23_Witness ==
    /\ checkBeforeContinue
    /\ handler = "processRequest"
    /\ lastOutcome = "Extracted"
    /\ Emits(emitted, "page complete")
    /\ PageComplete(emitted).reviews = <<>>
    /\ retries[currentApp] = 0
    /\ run = 2

(* ------------------------------- C24 ----------------------------------- *)
\* a retry is pending: the last response of the current application failed
\* and the timer of its next request has not expired
RetryPending == timers = 1 /\ consecFails > 0

\* C24: a failure that leaves the retry count below maxRetries changes neither
\* the current application, the current page nor the work queue and sets the
\* timer of one request; nothing changes them until that timer expires, and
\* the request then issued is for the application and the page of the failed
\* request.
C24_RetrySamePage ==
    [][/\ (/\ handler' = "processRequest"
           /\ lastOutcome' \in Failures
           /\ retries'[currentApp] < maxRetries)
            => /\ Head(queue) = [appId |-> currentApp, pageNum |-> currentPage]
               /\ UNCHANGED <<currentApp, currentPage, appIds>>
               /\ RetryPending'
               /\ queue' = <<>>
       /\ RetryPending
            => /\ UNCHANGED <<currentApp, currentPage, appIds>>
               /\ queue' # queue
                    => queue' = <<[appId |-> currentApp, pageNum |-> currentPage]>>]_vars

\* the request for page 1 was issued again after a failure, with another
\* application waiting in the work queue
C24_Witness ==
    /\ handler = "timer"
    /\ consecFails = 1
    /\ currentPage = 1
    /\ appIds # <<>>
    /\ queue = <<[appId |-> currentApp, pageNum |-> 1]>>

(* ------------------------------- C25 ----------------------------------- *)
\* C25: within the crawl of one application the pages requested start at 0
\* and go on with the same page or the page after it. Every request issued
\* is for the current application and page; a new application or run starts
\* at page 0; and otherwise the current page stays or goes up by 1, and it
\* goes up only after an extracted page, with no request pending before the
\* step and the request for the new page scheduled by it.
C25_PagesInSequence ==
    [][/\ Len(queue') > Len(queue)
            => /\ queue' = Append(queue, [appId |-> currentApp, pageNum |-> currentPage])
               /\ UNCHANGED <<currentApp, currentPage>>
       /\ (currentApp' # currentApp \/ run' # run) => currentPage' = firstPage
       /\ (currentApp' = currentApp /\ run' = run)
            => /\ currentPage' \in {currentPage, currentPage + 1}
               /\ currentPage' = currentPage + 1
                    => /\ lastOutcome' = "Extracted"
                       /\ timers = 0 /\ Len(queue) <= 1
                       /\ timers' = 1 /\ queue' = <<>>]_vars

\* a continue() kept from an earlier page moved the crawl from page 1 to page 2
C25_Witness ==
    /\ handler = "olderContinue"
    /\ currentPage = 2
    /\ timers = 1
    /\ lastOutcome = "Extracted"

(* ------------------------------- C26 ----------------------------------- *)
\* the step takes an application from the front of the work queue
StartsApp ==
    \/ run' # run /\ apps # <<>>
    \/ run' = run /\ currentApp' # currentApp

\* C26: whenever the crawl of an application starts, in any collect() run of
\* the Collector, its current page is 0 and its retry count is 0.
C26_StartsAtZero ==
    [][StartsApp => /\ currentPage' = firstPage
                    /\ retries'[currentApp'] = 0]_vars

(* ------------------------------- C27 ----------------------------------- *)
\* C27: every page request (the first of a run, the first of an application,
\* a retry, an advance) is handed to the Crawler by the expiry of a timer that
\* an earlier step set, and by nothing else: the step that schedules a
\* request hands none over.
C27_DelayBeforeRequest ==
    [][/\ Len(queue') > Len(queue)
            => /\ handler' = "timer"
               /\ timers > 0
               /\ timers' = timers - 1
               /\ Len(queue') = Len(queue) + 1
       /\ timers' > timers => Len(queue') <= Len(queue)]_vars

\* the first request of a second run was handed over by its timer
C27_Witness ==
    /\ handler = "timer"
    /\ run = 2
    /\ lastOutcome = "none"
    /\ timers = 0
    /\ queue = <<[appId |-> currentApp, pageNum |-> firstPage]>>

(* ------------------------------- C28 ----------------------------------- *)
\* C28: responseToHtml returns a string (Html), null (Empty) or undefined
\* (Invalid) and nothing else, an envelope whose first element has 4 elements
\* with something other than a string at index 2 giving undefined; and the
\* controller answers every response with a retry or the retry-limit end,
\* with 'done collecting', or with an extracted page, so that a request is
\* pending or an event was emitted afterwards.
C28_ThreeOutcomes ==
    /\ [](applied.fn # "none" =>
            /\ applied.result.type \in {"string", "null", "undefined"}
            /\ (/\ applied.response.contentType = JsonContentType
                /\ applied.response.body.kind \in {"fournull", "fourother"})
                  => applied.result.type = "undefined")
    /\ [][applied'.fn = "parse" =>
            /\ lastOutcome' \in Failures \cup {"Empty", "Extracted"}
            /\ timers' > 0 \/ emitted' # <<>>]_vars

(* ------------------------------- C29 ----------------------------------- *)
\* the response handled wraps a page of HTML without review fragments
NoFragments(response) ==
    /\ response.contentType = JsonContentType
    /\ response.body.kind = "fourstring"
    /\ response.body.html = <<>>

\* C29: a page of HTML without review fragments is an extracted page, not a
\* failure: the retry count of the application is set to 0, the first event
\* is 'page complete' with an empty list of reviews, and without
\* checkBeforeContinue the application stops there for every maxPages (0
\* included): one 'done collecting' without error follows and the next
\* application starts or the run ends; with checkBeforeContinue the
\* controller waits.
C29_ZeroReviewsPage ==
    [][(applied'.fn = "parse" /\ NoFragments(applied.response)) =>
          /\ lastOutcome' = "Extracted"
          /\ retries' = [retries EXCEPT ![currentApp] = 0]
          /\ Len(emitted') >= 1
          /\ emitted'[1].event = "page complete"
          /\ emitted'[1].reviews = <<>>
          /\ ErrorDone(emitted') = {}
          /\ IF checkBeforeContinue
             THEN /\ Len(emitted') = 1
                  /\ timers' = 0
                  /\ UNCHANGED <<currentApp, currentPage, appIds>>
             ELSE /\ Len(emitted') >= 2
                  /\ emitted'[2].event = "done collecting"
                  /\ emitted'[2].appId = currentApp
                  /\ emitted'[2].pageNum = currentPage
                  /\ Cardinality(PlainDone(emitted')) = 1
                  /\ NextAppOrDone]_vars

\* with maxPages 0 a page without reviews ended the application and the
\* next one was started
C29_Witness ==
    /\ applied.fn = "parse"
    /\ NoFragments(applied.response)
    /\ maxPages = 0
    /\ ~checkBeforeContinue
    /\ \E a \in DOMAIN retries : a # currentApp /\ retries[a] = 0
                                   /\ doneCollecting[a] = 1
    /\ timers = 1

(* ------------------------------- C30 ----------------------------------- *)
\* C30: the applications are processed strictly one after another. Every
\* event that names an application names the one that is current when the
\* step begins, every request issued or in flight is for the current
\* application, and within a run the current application changes only to the
\* front of the work queue, once 'done collecting' was emitted for the one
\* left, so that no earlier application comes back; and while an application
\* waits for continue() or stop() no request is scheduled or in flight.
C30_OneAppAtATime ==
    [][/\ \A i \in 1..Len(emitted') :
             "appId" \in DOMAIN emitted'[i] => emitted'[i].appId = currentApp
       /\ \A i \in 1..Len(queue) : queue[i].appId = currentApp
       /\ Len(queue') > Len(queue)
            => /\ queue'[Len(queue')].appId = currentApp
               /\ currentApp' = currentApp
       /\ (run' = run /\ currentApp' # currentApp)
            => /\ appIds # <<>>
               /\ currentApp' = Head(appIds)
               /\ appIds' = Tail(appIds)
               /\ Emits(emitted', "done collecting")
       /\ (run' = run /\ currentApp' = currentApp) => appIds' = appIds
       /\ nextStepDecided = "false" => timers = 0 /\ queue = <<>>]_vars

\* the second application of the list has a page complete, the first one
\* having ended
C30_Witness ==
    /\ Len(apps) = 2
    /\ currentApp = apps[2]
    /\ appIds = <<>>
    /\ doneCollecting[apps[1]] = 1
    /\ Emits(emitted, "page complete")
    /\ PageComplete(emitted).appId = apps[2]

(* ------------------------------- C31 ----------------------------------- *)
\* C31: with checkBeforeContinue true, once a later 'page complete' was
\* emitted, a call of the continue() delivered with an earlier one has no
\* effect: it advances no page, schedules no request, emits nothing and
\* leaves the decision of the newer cycle open.
C31_StaleCallbackInert ==
    [][(checkBeforeContinue /\ handler' = "olderContinue") =>
          /\ emitted' = <<>>
          /\ UNCHANGED <<currentApp, currentPage, appIds, nextStepDecided,
                         timers, queue>>]_vars

(* ------------------------------- C32 ----------------------------------- *)
\* C32: a page attempt that ends in ParseError has emitted no 'review' event
\* (so a retried page publishes each fragment at most once).
C32_ParseErrorEmitsNoReview ==
    (handler = "processRequest" /\ lastOutcome = "ParseError") =>
        ~Emits(emitted, "review")

(* ------------------------------- C33 ----------------------------------- *)
\* the events of seq that are about application a
EventsAbout(seq, a) ==
    {i \in 1..Len(seq) : "appId" \in DOMAIN seq[i] /\ seq[i].appId = a}

\* a request for application a is on its way: in the Crawler's queue, or
\* about to be built by the timer of queuePage()
RequestPending(a) ==
    \/ \E i \in 1..Len(queue) : queue[i].appId = a
    \/ (timers > 0 /\ currentApp = a)

\* C33: in a run, 'done collecting' is emitted at most once for an
\* application; once it was emitted no request for that application is
\* pending, and every event about the application was emitted no later than
\* its 'done collecting', whatever callbacks the listener calls.
C33_DoneCollectingOnce ==
    \A a \in DOMAIN doneCollecting :
        /\ doneCollecting[a] <= 1
        /\ doneCollecting[a] = 1 =>
              /\ ~RequestPending(a)
              /\ \A i \in EventsAbout(emitted, a) :
                    \E j \in EventsAbout(emitted, a) :
                        j >= i /\ emitted[j].event = "done collecting"

\* an application is finished and a callback of an earlier 'page complete'
\* was called after that, to no effect
C33_Witness ==
    /\ handler \in UserCalls
    /\ emitted = <<>>
    /\ doneCollecting[currentApp] = 1
    /\ Len(apps) = 2
    /\ currentApp = apps[2]
    /\ doneCollecting[apps[1]] = 1

(* ------------------------------- C34 ----------------------------------- *)
\* C34: 'done with apps' is emitted at most once in a run and only with the
\* work queue empty; it is the last event of the run: after it no request is
\* pending and nothing else is emitted, whatever callbacks the listener calls
\* afterwards. With an empty list of applications collect() emits it at once
\* and nothing is requested.
C34_DoneWithAppsIsLast ==
    /\ doneWithApps <= 1
    /\ doneWithApps = 1 =>
          /\ appIds = <<>>
          /\ timers = 0
          /\ queue = <<>>
          /\ emitted # <<>> =>
                /\ emitted[Len(emitted)].event = "done with apps"
                /\ EventsOf(emitted, "done with apps") = {Len(emitted)}
    /\ (apps = <<>> /\ run > 0) =>
          /\ handler = "collect"
          /\ doneWithApps = 1
          /\ Len(emitted) = 1

\* the run is over and a callback of an earlier 'page complete' was called
\* after 'done with apps', to no effect
C34_Witness ==
    /\ doneWithApps = 1
    /\ handler \in UserCalls
    /\ emitted = <<>>

(* ------------------------------- C35 ----------------------------------- *)
(* ------------- the requests of a crawl in automatic mode --------------- *)
\* new Collector(list, { maxPages, maxRetries }) with maxPages > 0,
\* maxRetries >= 1 and checkBeforeContinue left false; applied keeps the
\* number of requests built so far for an application in a run
InitAuto ==
    /\ Init
    /\ maxPages > 0
    /\ maxRetries >= 1
    /\ ~checkBeforeContinue
    /\ apps # <<>>

NoRequest == [fn |-> "request", run |-> 0, appId |-> "undefined", count |-> 0]

\* the timer of queuePage() expires and the request for currentPage of
\* currentApp is handed to the Crawler: one more request for that application
IssueRequest ==
    /\ timers > 0
    /\ timers' = timers - 1
    /\ queue' = Append(queue, [appId |-> currentApp, pageNum |-> currentPage])
    /\ emitted' = <<>>
    /\ handler' = "timer"
    /\ LET before == IF applied = NoCall THEN NoRequest ELSE applied
       IN  applied' = [fn |-> "request", run |-> run, appId |-> currentApp,
                       count |-> IF before.run = run /\ before.appId = currentApp
                                 THEN before.count + 1 ELSE 1]
    /\ UNCHANGED <<opts, retries, run, appIds, currentApp, currentPage,
                   nextStepDecided, lastPayload, olderContinue, lastOutcome,
                   doneWithApps, pageCompletes, consecFails, doneCollecting>>

NextAuto ==
    \/ Collect
    \/ IssueRequest
    \/ RequestFailed
    \/ RequestCompleted

SpecAuto == InitAuto /\ [][NextAuto]_vars

\* every request of the run got its callback and none is to come
AllCompleted == run > 0 /\ timers = 0 /\ queue = <<>>

\* C35 (first half): in automatic mode with maxPages = M > 0 and
\* maxRetries = R >= 1 no more than M * R requests are issued for an
\* application in a run.
C35_AtMostMRRequests ==
    applied # NoCall => applied.count <= maxPages * maxRetries

\* C35: in automatic mode with maxPages = M > 0 and maxRetries = R >= 1 no
\* more than M * R requests are issued for an application, and once all the
\* requests issued for an application have completed the application has
\* reached 'done collecting'.
C35_BoundedAndFinishes ==
    /\ C35_AtMostMRRequests
    /\ AllCompleted => doneCollecting[currentApp] = 1

(* ------------------------------- C36 ----------------------------------- *)
(* ---------- a page of HTML and a 'review' listener that throws --------- *)
\* the sets of positions on a page at whose 'review' event a listener
\* registered with on('review', ...) throws
Throwing == SUBSET (1..MaxReviews)

\* htmlToReviews: the _.forEach from node i on, with such a listener.
\* emitter.emit() runs the listeners synchronously, so what a listener throws
\* leaves emit() inside the try of htmlToReviews and reaches its catch.
RECURSIVE forEachReviewHeard(_, _, _, _, _, _, _)
forEachReviewHeard(st, html, i, reviews, appId, pageNum, throwing) ==
    IF i > Len(html)
    THEN [st |-> st, error |-> FALSE, reviews |-> reviews]
    ELSE LET matched == widthRegexExec(html[i].style)
         IN  IF matched.null
             THEN [st |-> st, error |-> TRUE, reviews |-> <<>>]
             ELSE LET review == [id |-> html[i].id,
                                 date |-> newDate(html[i].dateStr),
                                 rating |-> ratingOf(matched.group)]
                      emitting == emit(st, [event |-> "review", appId |-> appId,
                                            pageNum |-> pageNum, review |-> review])
                  IN  IF i \in throwing
                      THEN [st |-> emitting, error |-> TRUE, reviews |-> <<>>]
                      ELSE forEachReviewHeard(emitting, html, i + 1,
                                              Append(reviews, review), appId,
                                              pageNum, throwing)

\* htmlToReviews(html, appId, pageNum, emit) with that listener
htmlToReviewsHeard(st, html, appId, pageNum, throwing) ==
    forEachReviewHeard(st, html, 1, <<>>, appId, pageNum, throwing)

\* parse(result) of a response that wraps a page, with that listener
parseHeard(st, html, throwing) ==
    LET converted == htmlToReviewsHeard(st, html, st.currentApp, st.currentPage,
                                        throwing)
    IN  IF converted.error
        THEN requeue([converted.st EXCEPT !.lastOutcome = "ParseError"])
        ELSE pageExtracted(converted.st, converted.reviews)

\* htmlToReviews applied to a page alone, with and without that listener
ExtractHeard ==
    /\ applied = NoCall
    /\ \E html \in AllHtmls, throwing \in Throwing :
          LET converted == htmlToReviewsHeard([St EXCEPT !.emitted = <<>>], html,
                                              currentApp, currentPage, throwing)
              silent == htmlToReviews([St EXCEPT !.emitted = <<>>], html,
                                      currentApp, currentPage)
          IN  /\ applied' = [fn |-> "htmlToReviews", html |-> html,
                             throwing |-> throwing,
                             error |-> converted.error,
                             reviews |-> converted.reviews,
                             silentError |-> silent.error]
              /\ emitted' = converted.st.emitted
    /\ UNCHANGED <<opts, retries, run, appIds, currentApp, currentPage,
                   nextStepDecided, timers, queue, lastPayload,
                   olderContinue, handler, lastOutcome, doneWithApps,
                   pageCompletes, consecFails, doneCollecting>>

\* the Crawler calls back with a JSON response that wraps that page
HandleHeard ==
    /\ applied.fn = "htmlToReviews"
    /\ queue # <<>>
    /\ Apply(parseHeard([St EXCEPT !.queue = Tail(queue), !.emitted = <<>>],
                        applied.html, applied.throwing))
    /\ handler' = "processRequest"
    /\ applied' = [applied EXCEPT !.fn = "parse"]
    /\ UNCHANGED <<opts, run>>

NextHeard == ExtractHeard \/ HandleHeard

SpecHeard == InitExtract /\ [][NextHeard]_vars

\* a 'review' listener threw while the page was converted
ListenerThrew ==
    /\ applied.fn = "parse"
    /\ \E i \in applied.throwing : i <= Len(applied.html)
    /\ ~applied.silentError

\* C36: what a 'review' listener throws does not change the crawl: the page
\* is not taken as a failure, the retry count is not incremented, the page
\* is not fetched again and the application is not ended with the
\* retry-limit 'done collecting'.
C36_ListenerThrowIgnored ==
    ListenerThrew =>
        /\ lastOutcome = "Extracted"
        /\ retries[currentApp] = 0
        /\ ~RetryPending
        /\ ErrorDone(emitted) = {}

(* ------------------------------- C37 ----------------------------------- *)
(* ------------------ new Collector(apps) for any apps -------------------- *)
\* strings given as app ids: names, array indices, and the name of the
\* accessor every object inherits from Object.prototype
IdStrings == AllAppIds \cup {"__proto__"}

\* the values of an element of the array: a string, or a value of another type
ElementValues ==
    [type : {"string"}, s : IdStrings] \cup [type : {"number", "undefined"}]

\* the values of the 'apps' argument
AppsValues ==
    [type : {"string"}, s : IdStrings]
    \cup [type : {"array"}, elems : SeqsUpTo(ElementValues, MaxApps)]
    \cup [type : {"number", "undefined", "null", "object"}]

\* this.apps[appId] = { appId, retries: 0, pageNum: firstPage } on a plain
\* object: the key '__proto__' is the inherited accessor, so assigning an
\* object to it sets the prototype and adds no key of its own
assignApp(obj, appId) ==
    IF appId = "__proto__" THEN obj
    ELSE [k \in DOMAIN obj \cup {appId} |->
             IF k = appId
             THEN [appId |-> appId, retries |-> 0, pageNum |-> firstPage]
             ELSE obj[k]]

\* the _.forEach over the array from element i on
RECURSIVE forEachApp(_, _, _)
forEachApp(elems, i, obj) ==
    IF i > Len(elems) THEN [threw |-> FALSE, apps |-> obj]
    ELSE IF elems[i].type # "string"
         THEN [threw |-> TRUE, message |-> "App IDs must be strings"]
         ELSE forEachApp(elems, i + 1, assignApp(obj, elems[i].s))

\* constructor(apps, options): what it throws, or this.apps
constructor(appsArg) ==
    CASE appsArg.type = "array" -> forEachApp(appsArg.elems, 1, <<>>)
      [] appsArg.type = "string" ->
             [threw |-> FALSE, apps |-> assignApp(<<>>, appsArg.s)]
      [] OTHER ->
             [threw |-> TRUE,
              message |-> "You must provide either a string or an array for the 'apps' argument"]

\* the strings of a list of elements, in order
stringsOf(elems) ==
    LET strs == SelectSeq(elems, LAMBDA e : e.type = "string")
    IN  [i \in 1..Len(strs) |-> strs[i].s]

\* the keys of this.apps as _.keys lists them
keysOf(appsArg) ==
    LET given == IF appsArg.type = "array" THEN stringsOf(appsArg.elems)
                 ELSE <<appsArg.s>>
    IN  constructorKeys(SelectSeq(given, LAMBDA k : k # "__proto__"))

\* no Collector yet: new Collector(apps, options) is about to be evaluated
InitNew ==
    /\ applied \in [fn : {"new"}, apps : AppsValues]
    /\ maxPages \in 0..MaxPagesOpt
    /\ maxRetries \in 0..MaxRetriesOpt
    /\ checkBeforeContinue \in BOOLEAN
    /\ apps = <<>>
    /\ retries = <<>>
    /\ run = 0
    /\ appIds = <<>>
    /\ currentApp = "undefined"
    /\ currentPage = firstPage
    /\ nextStepDecided = "undefined"
    /\ timers = 0
    /\ queue = <<>>
    /\ emitted = <<>>
    /\ lastPayload = NoPayload
    /\ olderContinue = FALSE
    /\ handler = "none"
    /\ lastOutcome = "none"
    /\ doneWithApps = 0
    /\ pageCompletes = 0
    /\ consecFails = 0
    /\ doneCollecting = <<>>

\* the constructor returns: there is a Collector
Construct ==
    /\ applied.fn = "new"
    /\ LET made == constructor(applied.apps)
       IN  /\ ~made.threw
           /\ applied' = [fn |-> "constructor", apps |-> applied.apps,
                          result |-> made]
           /\ apps' = keysOf(applied.apps)
           /\ retries' = [k \in DOMAIN made.apps |-> made.apps[k].retries]
           /\ doneCollecting' = [k \in DOMAIN made.apps |-> 0]
    /\ handler' = "constructor"
    /\ UNCHANGED <<maxPages, maxRetries, checkBeforeContinue, run, appIds,
                   currentApp, currentPage, nextStepDecided, timers, queue,
                   emitted, lastPayload, olderContinue, lastOutcome,
                   doneWithApps, pageCompletes, consecFails>>

\* the constructor throws: there is no Collector
ConstructThrows ==
    /\ applied.fn = "new"
    /\ LET made == constructor(applied.apps)
       IN  /\ made.threw
           /\ applied' = [fn |-> "throw", apps |-> applied.apps, result |-> made]
    /\ UNCHANGED <<opts, retries, run, appIds, currentApp, currentPage,
                   nextStepDecided, timers, queue, emitted, lastPayload,
                   olderContinue, handler, lastOutcome, doneWithApps,
                   pageCompletes, consecFails, doneCollecting>>

NextNew == Construct \/ ConstructThrows

SpecNew == InitNew /\ [][NextNew]_vars

\* 'apps' is a string or an array of strings
StringOrStrings(appsArg) ==
    \/ appsArg.type = "string"
    \/ /\ appsArg.type = "array"
       /\ \A i \in 1..Len(appsArg.elems) : appsArg.elems[i].type = "string"

\* the distinct ids given with 'apps'
IdsGiven(appsArg) ==
    IF appsArg.type = "string" THEN {appsArg.s}
    ELSE {appsArg.elems[i].s : i \in 1..Len(appsArg.elems)}

\* C37: new Collector(apps) throws, and there is no Collector, when 'apps'
\* is neither a string nor an array or is an array with an element that is
\* not a string; for a string or an array of strings it makes a Collector
\* with one crawl state for each distinct id given, at retry count 0 and
\* page 0.
C37_ConstructorValidates ==
    applied.fn \in {"constructor", "throw"} =>
        IF StringOrStrings(applied.apps)
        THEN /\ applied.fn = "constructor"
             /\ DOMAIN applied.result.apps = IdsGiven(applied.apps)
             /\ \A k \in DOMAIN applied.result.apps :
                    /\ applied.result.apps[k].retries = 0
                    /\ applied.result.apps[k].pageNum = firstPage
        ELSE applied.fn = "throw" /\ handler = "none"

(* ------------------------------- C38 ----------------------------------- *)
(* --------------------------- formToString ------------------------------ *)
MaxFields == 3

\* strings, as sequences of characters: keys and values of a form
FormStrings ==
    {<<"x">>, <<>>, <<"a", " ">>, <<"&", "=">>, <<"%">>}

\* a form object, as its own properties in the order Object.keys lists them
Forms ==
    {form \in SeqsUpTo([key : FormStrings, value : FormStrings], MaxFields) :
        \A i, j \in 1..Len(form) : form[i].key = form[j].key => i = j}

\* Object.keys(form)
ObjectKeys(form) == [i \in 1..Len(form) |-> form[i].key]

\* form[key]
get(form, key) == form[CHOOSE i \in 1..Len(form) : form[i].key = key].value

\* encodeURIComponent leaving every character as it is
encodeChar_raw(c) == <<c>>

\* encodeURIComponent of one character: a character outside the unreserved
\* set becomes the %XX escape of its UTF-8 byte
encodeChar(c) ==
    CASE c = " " -> <<"%", "2", "0">>
      [] c = "%" -> <<"%", "2", "5">>
      [] c = "&" -> <<"%", "2", "6">>
      [] c = "=" -> <<"%", "3", "D">>
      [] OTHER   -> <<c>>

RECURSIVE encodeURIComponent(_)
encodeURIComponent(str) ==
    IF str = <<>> THEN <<>>
    ELSE encodeChar(Head(str)) \o encodeURIComponent(Tail(str))

\* the for loop of formToString from index i on (keys are indexed from 0)
RECURSIVE formToStringLoop(_, _, _, _)
formToStringLoop(form, keys, i, str) ==
    IF ~(i < Len(keys)) THEN str
    ELSE LET sep  == IF i > 0 THEN str \o <<"&">> ELSE str
             pair == encodeURIComponent(keys[i + 1]) \o <<"=">>
                     \o encodeURIComponent(get(form, keys[i + 1]))
         IN  formToStringLoop(form, keys, i + 1, sep \o pair)

\* formToString(form)
formToString(form) == formToStringLoop(form, ObjectKeys(form), 0, <<>>)

\* a form is about to be handed to formToString (no Collector is involved)
InitForm ==
    /\ applied \in [fn : {"form"}, form : Forms]
    /\ maxPages = 0
    /\ maxRetries = 0
    /\ checkBeforeContinue = FALSE
    /\ apps = <<>>
    /\ retries = <<>>
    /\ run = 0
    /\ appIds = <<>>
    /\ currentApp = "undefined"
    /\ currentPage = firstPage
    /\ nextStepDecided = "undefined"
    /\ timers = 0
    /\ queue = <<>>
    /\ emitted = <<>>
    /\ lastPayload = NoPayload
    /\ olderContinue = FALSE
    /\ handler = "none"
    /\ lastOutcome = "none"
    /\ doneWithApps = 0
    /\ pageCompletes = 0
    /\ consecFails = 0
    /\ doneCollecting = <<>>

\* formToString(form) is evaluated
FormToString ==
    /\ applied.fn = "form"
    /\ applied' = [fn |-> "formToString", form |-> applied.form,
                   result |-> formToString(applied.form)]
    /\ UNCHANGED <<opts, retries, run, appIds, currentApp, currentPage,
                   nextStepDecided, timers, queue, emitted, lastPayload,
                   olderContinue, handler, lastOutcome, doneWithApps,
                   pageCompletes, consecFails, doneCollecting>>

NextForm == FormToString

SpecForm == InitForm /\ [][NextForm]_vars

\* the pieces of str between the occurrences of the character sep
RECURSIVE Split(_, _)
Split(str, sep) ==
    IF \A i \in 1..Len(str) : str[i] # sep THEN <<str>>
    ELSE LET at == CHOOSE i \in 1..Len(str) :
                       str[i] = sep /\ \A j \in 1..(i - 1) : str[j] # sep
         IN  <<SubSeq(str, 1, at - 1)>> \o Split(SubSeq(str, at + 1, Len(str)), sep)

\* the character a %XX escape stands for
Unescape(hi, lo) ==
    CASE hi = "2" /\ lo = "0" -> " "
      [] hi = "2" /\ lo = "5" -> "%"
      [] hi = "2" /\ lo = "6" -> "&"
      [] hi = "3" /\ lo = "D" -> "="
      [] OTHER -> "malformed"

\* the string a URL-encoded text stands for; a character that may not appear
\* unescaped, or a cut-off escape, decodes to "malformed"
RECURSIVE UrlDecode(_)
UrlDecode(str) ==
    IF str = <<>> THEN <<>>
    ELSE IF Head(str) = "%"
         THEN IF Len(str) < 3 THEN <<"malformed">>
              ELSE <<Unescape(str[2], str[3])>> \o UrlDecode(SubSeq(str, 4, Len(str)))
         ELSE IF Head(str) \in {" ", "&", "="} THEN <<"malformed">>
         ELSE <<Head(str)>> \o UrlDecode(Tail(str))

\* C38: formToString(form) is the pairs of the form in the order of its
\* keys, each as 'key=value' with the key and the value URL-encoded, with
\* one '&' between two consecutive pairs and none before the first or after
\* the last.
C38_FormToString ==
    applied.fn = "formToString" =>
        LET form   == applied.form
            pieces == IF applied.result = <<>> THEN <<>>
                      ELSE Split(applied.result, "&")
        IN  /\ Len(pieces) = Len(form)
            /\ \A i \in 1..Len(pieces) :
                  LET kv == Split(pieces[i], "=")
                  IN  /\ Len(kv) = 2
                      /\ UrlDecode(kv[1]) = form[i].key
                      /\ UrlDecode(kv[2]) = form[i].value

\* a form of three pairs with characters to escape was converted
C38_Witness ==
    /\ applied.fn = "formToString"
    /\ Len(applied.form) = 3
    /\ applied.form[2].key = <<"&", "=">>
    /\ applied.form[3].value = <<"a", " ">>
    /\ \E i \in 1..Len(applied.result) : applied.result[i] = "%"

====
